---- MODULE Spec2Model ----
(***************************************************************************)
(* Model of the onboarding "Follows" screen                                *)
(* (app/javascript/mastodon/features/onboarding/follows.tsx).              *)
(*                                                                         *)
(* The screen keeps three pieces of React state (searchAccountIds, mode,   *)
(* searching), one ref (searchRequestRef, the AbortController of the most  *)
(* recently issued search request) and a debounced search handler          *)
(* (useDebouncedCallback(fn, 500, {leading: true, trailing: true})).       *)
(*                                                                         *)
(* Time is measured in the unit of the debounce wait (milliseconds).  The  *)
(* debouncer only ever compares "time since the last call" with the wait,  *)
(* so that quantity is kept saturated at Wait instead of an absolute       *)
(* clock.  Timers may fire late (the event loop gives no upper bound) but  *)
(* never early.                                                            *)
(*                                                                         *)
(* Every AbortController ever created is kept in the sequence `requests`;  *)
(* searchRequestRef is an index into it (0 is null).  A request is         *)
(* "pending" until its .then or .catch callback has run.                   *)
(***************************************************************************)
EXTENDS Integers, Sequences, FiniteSets, TLC

(* ------------------------------ bounds --------------------------------- *)

\* how many search requests one run of the model may issue
MaxRequests == 2

\* how many calls of the debounced handler one burst may contain
MaxBurst == 3

\* the granularity of the clock: time advances by this much per Tick
TimeStep == 250

(* --------------------------- program constants ------------------------- *)

\* useDebouncedCallback(..., 500, ...)
Wait == 500

\* the options { leading: true, trailing: true }
leading == TRUE

trailing == TRUE

(* ------------------------------ inputs --------------------------------- *)

\* Query strings, as sequences of characters: "", "  " and " b ".
Queries ==
  { <<>>, <<" ", " ">>, <<" ", "b", " ">> }

\* Account records returned by the search endpoint (ApiAccountJSON).
Acct(i, u) == [id |-> i, username |-> u]

\* Possible response bodies: empty, two accounts, the same two in the other
\* order, and a body that repeats an account.
Responses ==
  { <<>>,
    << Acct("1", "al"), Acct("2", "alice") >>,
    << Acct("2", "alice"), Acct("1", "al") >>,
    << Acct("1", "al"), Acct("1", "al") >> }

\* Entries of the store's suggestion list (state.suggestions.items).
Suggestion(a, src) == [account_id |-> a, source |-> src]

\* Possible outcomes of the suggestions fetch: two suggestions, not in the
\* order of their ids, the second for an account that search also returns.
SuggestionLists ==
  { << Suggestion("7", "staff"), Suggestion("1", "global") >> }

VARIABLES
  suggestions,        \* the store slice state.suggestions: isLoading and items
  searchAccountIds,   \* useState<string[]>([])
  mode,               \* useState<Mode>('remove')
  searching,          \* useState(false)
  searchRequestRef,   \* useRef<AbortController | null>(null): index, 0 = null
  requests,           \* every controller/request created so far
  value,              \* ColumnSearchHeader's useState('')
  mounted,            \* the screen is mounted
  dispatched,         \* the types of the store actions dispatched so far, in order
  dispatchedArgs,     \* the arguments of the latest import / relationship dispatches
  lastArgs,           \* debouncer: <<>> (null) or <<query>>
  timeSinceLastCall,  \* debouncer: min(now - lastCallTime, Wait); -1 = never called
  timerId,            \* debouncer: "null", "armed", or "spent" (fired, not cleared)
  timerLeft,          \* debouncer: time until the armed timer is due
  burstLen,           \* history: calls in the current burst
  burstInvoked,       \* history: positions of the burst's calls passed to the handler
  listSource,         \* history: request whose response the list holds, 0 = none
  listStale,          \* history: that request had been told to abort when it delivered
  lastEvent           \* history: the latest run of the search function or of a callback

vars ==
  << suggestions, searchAccountIds, mode, searching, searchRequestRef, requests, value,
     mounted, dispatched, dispatchedArgs, lastArgs, timeSinceLastCall, timerId, timerLeft,
     burstLen, burstInvoked, listSource, listStale, lastEvent >>

(* ------------------------------ helpers -------------------------------- *)

IsSpace(c) == c = " "

RECURSIVE TrimStart(_)
TrimStart(s) ==
  IF s # <<>> /\ IsSpace(Head(s)) THEN TrimStart(Tail(s)) ELSE s

RECURSIVE TrimEnd(_)
TrimEnd(s) ==
  IF s # <<>> /\ IsSpace(s[Len(s)]) THEN TrimEnd(SubSeq(s, 1, Len(s) - 1)) ELSE s

\* String.prototype.trim
Trim(s) == TrimEnd(TrimStart(s))

\* data.map((a) => a.id)
MapIds(data) == [i \in 1..Len(data) |-> data[i].id]

Min(a, b) == IF a < b THEN a ELSE b

Max(a, b) == IF a > b THEN a ELSE b

(* ---------------------------- initial state ---------------------------- *)

\* The state after the first render and its effect: the state hooks hold
\* their initial values and the mount effect has dispatched fetchSuggestions.
Init ==
  /\ suggestions = [isLoading |-> TRUE, items |-> <<>>]
  /\ searchAccountIds = <<>>
  /\ mode = "remove"
  /\ searching = FALSE
  /\ searchRequestRef = 0
  /\ requests = <<>>
  /\ value = <<>>
  /\ mounted = TRUE
  /\ dispatched = << "fetchSuggestions" >>
  /\ dispatchedArgs = << >>
  /\ lastArgs = <<>>
  /\ timeSinceLastCall = -1
  /\ timerId = "null"
  /\ timerLeft = 0
  /\ burstLen = 0
  /\ burstInvoked = <<>>
  /\ listSource = 0
  /\ listStale = FALSE
  /\ lastEvent = [op |-> "none", arg |-> 0]

(* ------------------------- the search handler -------------------------- *)

\* Variant of AbortCurrent: the request in the slot is left alone.
AbortCurrent_Skipped == requests

\* if (searchRequestRef.current) searchRequestRef.current.abort();
AbortCurrent ==
  IF searchRequestRef # 0
    THEN [requests EXCEPT ![searchRequestRef].aborted = TRUE]
    ELSE requests

\* Variant of IsBlank: the query is tested without trimming it.
IsBlank_Untrimmed(v) == Len(v) = 0

\* value.trim().length === 0
IsBlank(v) == Len(Trim(v)) = 0

\* new AbortController() together with the apiRequest that carries its signal
NewRequest(v) == [q |-> v, aborted |-> FALSE, status |-> "pending"]

\* Variant of searchFn: a blank query clears the list only when no search is
\* under way.
searchFn_ClearsWhenIdle(v) ==
  IF IsBlank(v)
    THEN /\ requests' = AbortCurrent
         /\ searchAccountIds' = IF searching THEN searchAccountIds ELSE <<>>
         /\ listSource' = IF searching THEN listSource ELSE 0
         /\ listStale' = IF searching THEN listStale ELSE FALSE
         /\ lastEvent' = [op |-> "search", arg |-> v]
         /\ UNCHANGED << searching, searchRequestRef >>
    ELSE /\ Len(requests) < MaxRequests
         /\ searching' = TRUE
         /\ requests' = Append(AbortCurrent, NewRequest(v))
         /\ searchRequestRef' = Len(requests) + 1
         /\ lastEvent' = [op |-> "search", arg |-> v]
         /\ UNCHANGED << searchAccountIds, listSource, listStale >>

\* Variant of searchFn: the searching flag is raised before the blank test.
searchFn_FlagsBeforeBlankTest(v) ==
  IF IsBlank(v)
    THEN /\ requests' = AbortCurrent
         /\ searching' = TRUE
         /\ searchAccountIds' = <<>>
         /\ listSource' = 0
         /\ listStale' = FALSE
         /\ lastEvent' = [op |-> "search", arg |-> v]
         /\ UNCHANGED searchRequestRef
    ELSE /\ Len(requests) < MaxRequests
         /\ searching' = TRUE
         /\ requests' = Append(AbortCurrent, NewRequest(v))
         /\ searchRequestRef' = Len(requests) + 1
         /\ lastEvent' = [op |-> "search", arg |-> v]
         /\ UNCHANGED << searchAccountIds, listSource, listStale >>

\* Variant of searchFn: a blank query returns before the slot is aborted.
searchFn_BlankSkipsAbort(v) ==
  IF IsBlank(v)
    THEN /\ searchAccountIds' = <<>>
         /\ listSource' = 0
         /\ listStale' = FALSE
         /\ lastEvent' = [op |-> "search", arg |-> v]
         /\ UNCHANGED << requests, searching, searchRequestRef >>
    ELSE /\ Len(requests) < MaxRequests
         /\ searching' = TRUE
         /\ requests' = Append(AbortCurrent, NewRequest(v))
         /\ searchRequestRef' = Len(requests) + 1
         /\ lastEvent' = [op |-> "search", arg |-> v]
         /\ UNCHANGED << searchAccountIds, listSource, listStale >>

\* The function wrapped by useDebouncedCallback: abort the request in the
\* slot, then either clear the list (blank query) or raise the searching
\* flag, put a fresh controller in the slot and issue the request.
searchFn(v) ==
  IF IsBlank(v)
    THEN /\ requests' = AbortCurrent
         /\ searchAccountIds' = <<>>
         /\ listSource' = 0
         /\ listStale' = FALSE
         /\ lastEvent' = [op |-> "search", arg |-> v]
         /\ UNCHANGED << searching, searchRequestRef >>
    ELSE /\ Len(requests) < MaxRequests
         /\ searching' = TRUE
         /\ requests' = Append(AbortCurrent, NewRequest(v))
         /\ searchRequestRef' = Len(requests) + 1
         /\ lastEvent' = [op |-> "search", arg |-> v]
         /\ UNCHANGED << searchAccountIds, listSource, listStale >>

(* ----------------------------- the debouncer --------------------------- *)

\* Variant of shouldInvoke: the wait since the last call is not checked.
shouldInvoke_NoWait == TRUE

\* shouldInvoke(time): first call, or the wait has passed since the last call
shouldInvoke == timeSinceLastCall = -1 \/ timeSinceLastCall >= Wait

\* invokeFunc(time): hand the stored arguments to the wrapped function
invokeFunc(v) ==
  /\ lastArgs' = <<>>
  /\ burstInvoked' = Append(burstInvoked, burstLen)
  /\ searchFn(v)

\* History bookkeeping: a call that arrives a full wait (or more) after the
\* previous call opens a new burst; a call that arrives sooner extends it.
BurstOver == timeSinceLastCall = -1 \/ timeSinceLastCall >= Wait

\* A call of the debounced function with argument v.
debounced(v) ==
  LET isInvoking == shouldInvoke
      pos == IF BurstOver THEN 1 ELSE burstLen + 1
  IN /\ pos <= MaxBurst
     /\ timeSinceLastCall' = 0
     /\ burstLen' = pos
     /\ IF isInvoking /\ timerId = "null" /\ mounted
          THEN \* leadingEdge
               /\ timerId' = "armed"
               /\ timerLeft' = Wait
               /\ IF leading
                    THEN /\ burstInvoked' = IF BurstOver THEN <<pos>>
                                                         ELSE Append(burstInvoked, pos)
                         /\ lastArgs' = <<>>
                         /\ searchFn(v)
                    ELSE /\ burstInvoked' = IF BurstOver THEN <<>> ELSE burstInvoked
                         /\ lastArgs' = <<v>>
                         /\ UNCHANGED << searchAccountIds, searching, searchRequestRef,
                                         requests, listSource, listStale, lastEvent >>
          ELSE /\ lastArgs' = <<v>>
               /\ burstInvoked' = IF BurstOver THEN <<>> ELSE burstInvoked
               /\ timerId' = IF timerId = "null" THEN "armed" ELSE timerId
               /\ timerLeft' = IF timerId = "null" THEN Wait ELSE timerLeft
               /\ UNCHANGED << searchAccountIds, searching, searchRequestRef,
                               requests, listSource, listStale, lastEvent >>

\* timerExpired: the timer callback.  It runs the trailing edge if the wait
\* has passed since the last call, otherwise it re-arms for the remainder
\* (unless the screen is gone).
timerExpired ==
  /\ timerId = "armed"
  /\ timerLeft = 0
  /\ IF shouldInvoke
       THEN \* trailingEdge
            /\ timerId' = "null"
            /\ timerLeft' = 0
            /\ IF trailing /\ lastArgs # <<>>
                 THEN invokeFunc(lastArgs[1])
                 ELSE /\ lastArgs' = <<>>
                      /\ UNCHANGED << searchAccountIds, searching, searchRequestRef,
                                      requests, listSource, listStale, lastEvent,
                                      burstInvoked >>
       ELSE /\ IF mounted
                 THEN /\ timerId' = "armed"
                      /\ timerLeft' = Wait - timeSinceLastCall
                 ELSE /\ timerId' = "spent"
                      /\ timerLeft' = 0
            /\ UNCHANGED << searchAccountIds, searching, searchRequestRef,
                            requests, listSource, listStale, lastEvent, lastArgs,
                            burstInvoked >>
  /\ UNCHANGED << suggestions, mode, value, mounted, dispatched, dispatchedArgs,
                  timeSinceLastCall, burstLen >>

\* Time passes.
Tick ==
  /\ timeSinceLastCall' =
       IF timeSinceLastCall = -1 THEN -1 ELSE Min(timeSinceLastCall + TimeStep, Wait)
  /\ timerLeft' = IF timerId = "armed" THEN Max(timerLeft - TimeStep, 0) ELSE timerLeft
  /\ UNCHANGED << suggestions, searchAccountIds, mode, searching, searchRequestRef,
                  requests, value, mounted, dispatched, dispatchedArgs, lastArgs, timerId,
                  burstLen, burstInvoked, listSource, listStale, lastEvent >>

(* --------------------------- the search header ------------------------- *)

\* handleChange: the input's onChange, fired when the input's text changes to
\* v; the header exists only in add mode
handleChange(v) ==
  /\ mounted
  /\ mode = "add"
  /\ v # value
  /\ value' = v
  /\ debounced(v)
  /\ UNCHANGED << suggestions, mode, mounted, dispatched, dispatchedArgs >>

\* handleSubmit: the form's onSubmit, with the input's current value
handleSubmit ==
  /\ mounted
  /\ mode = "add"
  /\ debounced(value)
  /\ UNCHANGED << suggestions, value, mode, mounted, dispatched, dispatchedArgs >>

(* ------------------------------ mode toggle ---------------------------- *)

\* handleSearchClick: the search button of the remove-mode header.  The
\* search header mounts with it, so its input starts empty.
handleSearchClick ==
  /\ mounted
  /\ mode = "remove"
  /\ mode' = "add"
  /\ value' = <<>>
  /\ UNCHANGED << suggestions, searchAccountIds, searching, searchRequestRef, requests,
                  mounted, dispatched, dispatchedArgs, lastArgs, timeSinceLastCall, timerId,
                  timerLeft, burstLen, burstInvoked, listSource, listStale, lastEvent >>

\* Variant of handleDismissSearchClick: going back also drops the results.
handleDismissSearchClick_Clears ==
  /\ mounted
  /\ mode = "add"
  /\ mode' = "remove"
  /\ searchAccountIds' = <<>>
  /\ UNCHANGED << suggestions, searching, searchRequestRef, requests, value,
                  mounted, dispatched, dispatchedArgs, lastArgs, timeSinceLastCall, timerId,
                  timerLeft, burstLen, burstInvoked, listSource, listStale, lastEvent >>

\* handleDismissSearchClick: the back button of the search header
handleDismissSearchClick ==
  /\ mounted
  /\ mode = "add"
  /\ mode' = "remove"
  /\ UNCHANGED << suggestions, searchAccountIds, searching, searchRequestRef, requests, value,
                  mounted, dispatched, dispatchedArgs, lastArgs, timeSinceLastCall, timerId,
                  timerLeft, burstLen, burstInvoked, listSource, listStale, lastEvent >>

(* --------------------------- request settlement ------------------------ *)

\* The transport may deliver a response to any request whose callbacks have
\* not run yet; cancellation is cooperative, so a response can still arrive
\* for a request that has been told to abort.
CanFulfil(r) == requests[r].status = "pending"

\* The transport may fail any request whose callbacks have not run yet
\* (transport failure, or the rejection that follows an abort).
CanReject(r) == requests[r].status = "pending"

\* Variant of onFulfilled: the identifiers are added to the list already shown.
onFulfilled_Appends(r, data) ==
  /\ dispatched' = dispatched \o << "importFetchedAccounts", "fetchRelationships" >>
  /\ dispatchedArgs' = << data, MapIds(data) >>
  /\ searchAccountIds' = searchAccountIds \o MapIds(data)
  /\ searching' = FALSE
  /\ listSource' = r
  /\ listStale' = requests[r].aborted
  /\ lastEvent' = [op |-> "then", arg |-> r]
  /\ UNCHANGED << mode, searchRequestRef >>

\* Variant of onFulfilled: nothing is dispatched for an empty response.
onFulfilled_SkipsEmpty(r, data) ==
  /\ dispatched' = IF data = <<>> THEN dispatched
                   ELSE dispatched \o << "importFetchedAccounts", "fetchRelationships" >>
  /\ dispatchedArgs' = IF data = <<>> THEN dispatchedArgs ELSE << data, MapIds(data) >>
  /\ searchAccountIds' = MapIds(data)
  /\ searching' = FALSE
  /\ listSource' = r
  /\ listStale' = requests[r].aborted
  /\ lastEvent' = [op |-> "then", arg |-> r]
  /\ UNCHANGED << mode, searchRequestRef >>

\* Variant of onFulfilled: the slot is emptied once its request has answered.
onFulfilled_ClearsSlot(r, data) ==
  /\ dispatched' = dispatched \o << "importFetchedAccounts", "fetchRelationships" >>
  /\ dispatchedArgs' = << data, MapIds(data) >>
  /\ searchAccountIds' = MapIds(data)
  /\ searching' = FALSE
  /\ listSource' = r
  /\ listStale' = requests[r].aborted
  /\ lastEvent' = [op |-> "then", arg |-> r]
  /\ searchRequestRef' = IF r = searchRequestRef THEN 0 ELSE searchRequestRef
  /\ UNCHANGED mode

\* .then((data) => { ... }): import the accounts, fetch their relationships,
\* replace the list, clear the flag.
onFulfilled(r, data) ==
  /\ dispatched' = dispatched \o << "importFetchedAccounts", "fetchRelationships" >>
  /\ dispatchedArgs' = << data, MapIds(data) >>
  /\ searchAccountIds' = MapIds(data)
  /\ searching' = FALSE
  /\ listSource' = r
  /\ listStale' = requests[r].aborted
  /\ lastEvent' = [op |-> "then", arg |-> r]
  /\ UNCHANGED << mode, searchRequestRef >>

\* Variant of onRejected: the flag is cleared only for the request in the slot.
onRejected_OnlyCurrent(r) ==
  /\ searching' = IF r = searchRequestRef THEN FALSE ELSE searching
  /\ lastEvent' = [op |-> "catch", arg |-> r]
  /\ UNCHANGED << searchAccountIds, dispatched, dispatchedArgs, mode,
                  searchRequestRef, listSource, listStale >>

\* Variant of onRejected: a failure also empties the list.
onRejected_ClearsList(r) ==
  /\ searching' = FALSE
  /\ searchAccountIds' = <<>>
  /\ lastEvent' = [op |-> "catch", arg |-> r]
  /\ UNCHANGED << dispatched, dispatchedArgs, mode, searchRequestRef,
                  listSource, listStale >>

\* Variant of onRejected: a failure also leaves search mode.
onRejected_LeavesSearch(r) ==
  /\ searching' = FALSE
  /\ mode' = "remove"
  /\ lastEvent' = [op |-> "catch", arg |-> r]
  /\ UNCHANGED << searchAccountIds, dispatched, dispatchedArgs,
                  searchRequestRef, listSource, listStale >>

\* Variant of onRejected: the failure is swallowed without touching the flag.
onRejected_Silent(r) ==
  /\ lastEvent' = [op |-> "catch", arg |-> r]
  /\ UNCHANGED << searching, searchAccountIds, dispatched, dispatchedArgs, mode,
                  searchRequestRef, listSource, listStale >>

\* .catch(() => { setSearching(false); })
onRejected(r) ==
  /\ searching' = FALSE
  /\ lastEvent' = [op |-> "catch", arg |-> r]
  /\ UNCHANGED << searchAccountIds, dispatched, dispatchedArgs, mode,
                  searchRequestRef, listSource, listStale >>

Resolve(r, data) ==
  /\ CanFulfil(r)
  /\ requests' = [requests EXCEPT ![r].status = "fulfilled"]
  /\ onFulfilled(r, data)
  /\ UNCHANGED << suggestions, value, mounted, lastArgs,
                  timeSinceLastCall, timerId, timerLeft, burstLen, burstInvoked >>

Reject(r) ==
  /\ CanReject(r)
  /\ requests' = [requests EXCEPT ![r].status = "rejected"]
  /\ onRejected(r)
  /\ UNCHANGED << suggestions, value, mounted, lastArgs,
                  timeSinceLastCall, timerId, timerLeft, burstLen, burstInvoked >>

(* ------------------------------ suggestions ---------------------------- *)

\* The store finishes the fetch that the mount effect dispatched: the
\* suggestion list is filled and the loading flag cleared.
SuggestionsFetched(items) ==
  /\ suggestions.isLoading
  /\ suggestions' = [isLoading |-> FALSE, items |-> items]
  /\ UNCHANGED << searchAccountIds, mode, searching, searchRequestRef, requests,
                  value, mounted, dispatched, dispatchedArgs, lastArgs,
                  timeSinceLastCall, timerId, timerLeft, burstLen, burstInvoked,
                  listSource, listStale, lastEvent >>

(* ------------------------------- rendering ----------------------------- *)

\* Variant of displayedAccountIds: search results are shown whenever there
\* are any.
displayedAccountIds_PrefersResults ==
  IF mode = "add" \/ searchAccountIds # <<>>
    THEN searchAccountIds
    ELSE [i \in 1..Len(suggestions.items) |-> suggestions.items[i].account_id]

\* let displayedAccountIds: the search results in add mode, otherwise the
\* account ids of the suggestions
displayedAccountIds ==
  IF mode = "add"
    THEN searchAccountIds
    ELSE [i \in 1..Len(suggestions.items) |-> suggestions.items[i].account_id]

(* -------------------------------- teardown ----------------------------- *)

\* Variant of Unmount: the timeline is not marked while a search is under way.
Unmount_SkipsWhileSearching ==
  /\ mounted
  /\ mounted' = FALSE
  /\ dispatched' = IF searching THEN dispatched ELSE Append(dispatched, "markAsPartial")
  /\ UNCHANGED << suggestions, dispatchedArgs, searchAccountIds, mode, searching,
                  searchRequestRef, requests, value, lastArgs, timeSinceLastCall,
                  timerId, timerLeft, burstLen, burstInvoked, listSource, listStale,
                  lastEvent >>

\* Variant of Unmount: the cleanup also aborts the request in the slot.
Unmount_Aborts ==
  /\ mounted
  /\ mounted' = FALSE
  /\ dispatched' = Append(dispatched, "markAsPartial")
  /\ requests' = AbortCurrent
  /\ UNCHANGED << suggestions, dispatchedArgs, searchAccountIds, mode, searching,
                  searchRequestRef, value, lastArgs, timeSinceLastCall,
                  timerId, timerLeft, burstLen, burstInvoked, listSource, listStale,
                  lastEvent >>

\* The cleanup of the mount effect: dispatch(markAsPartial('home')).
Unmount ==
  /\ mounted
  /\ mounted' = FALSE
  /\ dispatched' = Append(dispatched, "markAsPartial")
  /\ UNCHANGED << suggestions, dispatchedArgs, searchAccountIds, mode, searching, searchRequestRef, requests,
                  value, lastArgs, timeSinceLastCall, timerId, timerLeft,
                  burstLen, burstInvoked, listSource, listStale, lastEvent >>

(* ------------------------------ specification -------------------------- *)

Next ==
  \/ \E v \in Queries : handleChange(v)
  \/ handleSubmit
  \/ timerExpired
  \/ Tick
  \/ handleSearchClick
  \/ handleDismissSearchClick
  \/ \E r \in 1..Len(requests) : \E data \in Responses : Resolve(r, data)
  \/ \E r \in 1..Len(requests) : Reject(r)
  \/ Unmount
  \/ \E items \in SuggestionLists : SuggestionsFetched(items)

Spec == Init /\ [][Next]_vars

\* Some pending request is answered or fails.
Settle ==
  \E r \in 1..Len(requests) :
    Reject(r) \/ \E data \in Responses : Resolve(r, data)

\* The same screen on a transport that leaves no request unanswered forever.
LiveSpec == Spec /\ WF_vars(Settle)

(* ======================================================================= *)
(*                               Properties                                *)
(* ======================================================================= *)

Issued == 1..Len(requests)

\* the request's .then / .catch callback has not run yet
Unsettled(r) == requests[r].status = "pending"

\* the request's controller has been told to abort
Signalled(r) == requests[r].aborted

\* the query is empty once leading and trailing whitespace is removed
TrimmedEmpty(v) == Trim(v) = <<>>

\* the latest event is a run of the search function with a blank query
RanBlankSearch(e) == e.op = "search" /\ TrimmedEmpty(e.arg)

(* ----------------------------------------------------------------------- *)
(* C1 as stated: at every moment at most one request has been issued and    *)
(* is not yet settled.                                                      *)
C1_AtMostOneUnsettled ==
  Cardinality({r \in Issued : Unsettled(r)}) <= 1

(* C1, amended: at every moment at most one request is unsettled without    *)
(* having received a cancellation signal, and every request other than the  *)
(* most recently issued one has received a cancellation signal (the handler *)
(* signals the request in the slot before it issues the next one); a        *)
(* signalled request may still be unsettled, because its rejection is       *)
(* handled in a later step.                                                 *)
C1_AtMostOneLiveRequest ==
  /\ Cardinality({r \in Issued : Unsettled(r) /\ ~Signalled(r)}) <= 1
  /\ \A r \in Issued : r # Len(requests) => Signalled(r)
  /\ searchRequestRef = Len(requests)

\* two requests issued, the first signalled while still unsettled, the second live
C1_Witness ==
  /\ Len(requests) >= 2
  /\ Unsettled(1) /\ Signalled(1)
  /\ Unsettled(2) /\ ~Signalled(2)

(* ----------------------------------------------------------------------- *)
(* C2: once every request has settled, the result list never holds the     *)
(* response of a request that had been superseded (told to abort) when      *)
(* that response arrived.                                                   *)
C2_NoStaleFinalList ==
  (Len(requests) >= 2 /\ \A r \in Issued : ~Unsettled(r)) => ~listStale

(* ----------------------------------------------------------------------- *)
(* C3: a run of the search function with a query whose trimmed form is     *)
(* empty leaves the result list empty and issues no request, whatever the   *)
(* list, the searching flag and the requests were before.                   *)
C3_BlankClearsAndIssuesNothing ==
  [][ RanBlankSearch(lastEvent')
        => /\ searchAccountIds' = <<>>
           /\ Len(requests') = Len(requests)
           /\ searchRequestRef' = searchRequestRef
           /\ searching' = searching ]_vars

\* a whitespace-only query was handled while a request was pending and the
\* list had been filled by an earlier response
C3_Witness ==
  /\ lastEvent = [op |-> "search", arg |-> <<" ", " ">>]
  /\ searchAccountIds = <<>>
  /\ searching
  /\ \E r \in Issued : requests[r].status = "fulfilled"
  /\ Len(dispatchedArgs) = 2 /\ dispatchedArgs[2] # <<>>
  /\ \E r \in Issued : Unsettled(r)

C5_ClearedWithTheInputEvent ==
  [][ \A v \in Queries :
        (TrimmedEmpty(v) /\ handleChange(v)) => searchAccountIds' = <<>> ]_vars

(* C5, amended: the list is cleared in the very step in which the search    *)
(* function runs with a blank query, whether or not a request is pending:   *)
(* at once for a blank query that opens a burst while no timer is armed,    *)
(* and when the debounce timer runs the trailing call for a blank query     *)
(* typed less than Wait after the previous call; until then that blank      *)
(* query is only stored and the list is left as it was.                     *)
C5_ClearedWhenTheHandlerRuns ==
  [][ /\ \A v \in Queries :
           (TrimmedEmpty(v) /\ handleChange(v))
             => IF BurstOver /\ timerId = "null"
                  THEN searchAccountIds' = <<>>
                  ELSE /\ searchAccountIds' = searchAccountIds
                       /\ lastArgs' = <<v>>
                       /\ timerId' = "armed"
      /\ (timerExpired /\ BurstOver /\ lastArgs # <<>> /\ TrimmedEmpty(lastArgs[1]))
           => searchAccountIds' = <<>> ]_vars

\* the trailing call of a burst ran with a blank query and cleared a list that
\* a response had filled, while a request was still unsettled
C5_Witness ==
  /\ RanBlankSearch(lastEvent)
  /\ Len(burstInvoked) = 2
  /\ searchAccountIds = <<>>
  /\ Len(dispatchedArgs) = 2 /\ dispatchedArgs[2] # <<>>
  /\ \E r \in Issued : Unsettled(r)

(* ----------------------------------------------------------------------- *)
(* C6: when a request succeeds with the records data, the result list      *)
(* becomes exactly the identifiers of data in the order of the response     *)
(* (nothing of the old list kept, nothing reordered, no duplicate removed)  *)
(* and the searching flag becomes false.                                    *)
C6_ListReplacedInResponseOrder ==
  [][ \A r \in Issued : \A data \in Responses :
        Resolve(r, data)
          => /\ Len(searchAccountIds') = Len(data)
             /\ \A i \in 1..Len(data) : searchAccountIds'[i] = data[i].id
             /\ searching' = FALSE ]_vars

\* a second response, which repeats an account, replaced the list of the first
C6_Witness ==
  /\ lastEvent.op = "then"
  /\ Cardinality({r \in Issued : requests[r].status = "fulfilled"}) = 2
  /\ searchAccountIds = <<"1", "1">>
  /\ ~searching

(* ----------------------------------------------------------------------- *)
(* C7: the step that handles the failure or cancellation of a request      *)
(* leaves the searching flag false, whatever it was and whether or not a    *)
(* newer request is still pending.                                          *)
C7_FlagFalseAfterFailure ==
  [][ \A r \in Issued : Reject(r) => searching' = FALSE ]_vars

\* the failure of the superseded request was handled while the newer request
\* is still pending
C7_Witness ==
  /\ lastEvent = [op |-> "catch", arg |-> 1]
  /\ ~searching
  /\ Len(requests) >= 2
  /\ Unsettled(2) /\ ~Signalled(2)

(* ----------------------------------------------------------------------- *)
(* C8: the mode is always remove or add; it starts as remove; the search   *)
(* button sets it to add, the back button sets it to remove, and no other   *)
(* step changes it.                                                         *)
C8_ModeToggle ==
  /\ mode = "remove"
  /\ [](mode \in {"remove", "add"})
  /\ [][ /\ handleSearchClick => mode' = "add"
         /\ handleDismissSearchClick => mode' = "remove"
         /\ mode' # mode => (handleSearchClick \/ handleDismissSearchClick) ]_vars

\* back in remove mode after a search whose request failed
C8_Witness ==
  /\ mode = "remove"
  /\ lastEvent.op = "catch"
  /\ searchAccountIds # <<>>

(* ----------------------------------------------------------------------- *)
(* C9: the searching flag is true whenever some issued request that has    *)
(* not been superseded is unsettled, and false whenever no request is       *)
(* unsettled.                                                               *)
C9_FlagTracksInFlight ==
  /\ (\E r \in Issued : Unsettled(r) /\ ~Signalled(r)) => searching
  /\ (\A r \in Issued : ~Unsettled(r)) => ~searching

(* ----------------------------------------------------------------------- *)
(* C10: the step that handles a failed or aborted request changes the      *)
(* searching flag and nothing else: the result list, the dispatched         *)
(* actions, the mode, the slot and the debouncer stay as they were, no      *)
(* request is issued and no other request is touched.                       *)
C10_FailureOnlyClearsFlag ==
  [][ \A r \in Issued :
        Reject(r)
          => /\ searchAccountIds' = searchAccountIds
             /\ dispatched' = dispatched
             /\ dispatchedArgs' = dispatchedArgs
             /\ mode' = mode
             /\ searchRequestRef' = searchRequestRef
             /\ Len(requests') = Len(requests)
             /\ \A j \in Issued : j # r => requests'[j] = requests[j]
             /\ requests'[r].aborted = requests[r].aborted
             /\ requests'[r].q = requests[r].q
             /\ <<lastArgs', timerId', timerLeft'>> = <<lastArgs, timerId, timerLeft>> ]_vars

\* an aborted request failed while the list held an earlier response
C10_Witness ==
  /\ lastEvent.op = "catch"
  /\ Signalled(lastEvent.arg)
  /\ searchAccountIds # <<>>
  /\ listSource # 0 /\ listSource # lastEvent.arg

(* ----------------------------------------------------------------------- *)
\* how often the action type t has been dispatched
Count(t) == Cardinality({i \in 1..Len(dispatched) : dispatched[i] = t})

\* this step is a run of the search function with the query v: the leading
\* call of a burst, or the timer running the stored trailing call
RunsSearchFn(v) ==
  \/ /\ handleChange(v) \/ (v = value /\ handleSubmit)
     /\ shouldInvoke /\ timerId = "null" /\ leading
  \/ /\ timerExpired
     /\ shouldInvoke /\ trailing /\ lastArgs = <<v>>

(* ----------------------------------------------------------------------- *)
(* C11: the step that handles a successful response dispatches exactly one *)
(* import action with the returned records followed by exactly one          *)
(* relationship fetch with their identifiers in response order, in the same *)
(* step in which the list is replaced and the flag cleared (so never after  *)
(* it); a blank query, a failed request and every step other than a         *)
(* success or the teardown dispatch nothing.                                *)
C11_SuccessDispatchesOnce ==
  [][ /\ \A r \in Issued : \A data \in Responses :
           Resolve(r, data)
             => /\ dispatched' = dispatched \o
                                   << "importFetchedAccounts", "fetchRelationships" >>
                /\ Len(dispatchedArgs') = 2
                /\ dispatchedArgs'[1] = data
                /\ Len(dispatchedArgs'[2]) = Len(data)
                /\ \A i \in 1..Len(data) : dispatchedArgs'[2][i] = data[i].id
                /\ searchAccountIds' = dispatchedArgs'[2]
                /\ searching' = FALSE
      /\ \A r \in Issued : Reject(r) => dispatched' = dispatched
      /\ \A v \in Queries : RunsSearchFn(v) => dispatched' = dispatched
      /\ (Count("importFetchedAccounts")' # Count("importFetchedAccounts")
            \/ Count("fetchRelationships")' # Count("fetchRelationships"))
           => \E r \in Issued : \E data \in Responses : Resolve(r, data) ]_vars

\* a successful but empty response: both actions dispatched, once each
C11_Witness ==
  /\ lastEvent.op = "then"
  /\ dispatched = << "fetchSuggestions", "importFetchedAccounts", "fetchRelationships" >>
  /\ dispatchedArgs = << <<>>, <<>> >>
  /\ \E r \in Issued : requests[r].status = "rejected"

(* ----------------------------------------------------------------------- *)
(* C12: both mode transitions leave the result list, the searching flag,   *)
(* the slot, the requests and the debouncer (stored call and timer) as      *)
(* they were.                                                               *)
C12_ModeToggleKeepsSearchState ==
  [][ (handleSearchClick \/ handleDismissSearchClick)
        => /\ searchAccountIds' = searchAccountIds
           /\ searching' = searching
           /\ searchRequestRef' = searchRequestRef
           /\ requests' = requests
           /\ lastArgs' = lastArgs
           /\ timerId' = timerId
           /\ timerLeft' = timerLeft
           /\ timeSinceLastCall' = timeSinceLastCall ]_vars

\* search mode re-entered (the input is empty again) with the results, the
\* pending request, the stored call and the timer of the previous visit
C12_Witness ==
  /\ mode = "add"
  /\ value = <<>>
  /\ searchAccountIds # <<>>
  /\ displayedAccountIds = searchAccountIds
  /\ searching
  /\ \E r \in Issued : Unsettled(r) /\ ~Signalled(r)
  /\ lastArgs = << <<" ", "b", " ">> >>
  /\ timerId = "armed"

(* ----------------------------------------------------------------------- *)
(* C13: in remove mode the displayed list is the account ids of the        *)
(* store's suggestions in store order, whatever the search results are; in  *)
(* add mode it is the search result list, whatever the suggestions are.     *)
C13_DisplayedByMode ==
  /\ mode = "remove"
       => /\ Len(displayedAccountIds) = Len(suggestions.items)
          /\ \A i \in 1..Len(suggestions.items) :
               displayedAccountIds[i] = suggestions.items[i].account_id
  /\ mode = "add" => displayedAccountIds = searchAccountIds

\* remove mode with search results stored: the suggestions are displayed
C13_Witness ==
  /\ mode = "remove"
  /\ searchAccountIds = <<"2", "1">>
  /\ displayedAccountIds = <<"7", "1">>

(* ----------------------------------------------------------------------- *)
(* C14: the slot changes only in a step in which the search function runs  *)
(* with a non-blank query, and then it refers to the request issued in that *)
(* step; so it is null until the first request and afterwards always the    *)
(* most recently issued request, settled, aborted or not.                   *)
C14_SlotWrittenOnlyOnIssue ==
  /\ [](searchRequestRef = Len(requests))
  /\ [][ searchRequestRef' # searchRequestRef
           => /\ \E v \in Queries : ~TrimmedEmpty(v) /\ RunsSearchFn(v)
              /\ Len(requests') = Len(requests) + 1
              /\ searchRequestRef' = Len(requests') ]_vars

\* after teardown, in remove mode, the slot still holds the last request, which
\* was aborted by a blank query and has failed
C14_Witness ==
  /\ ~mounted
  /\ mode = "remove"
  /\ searchRequestRef = Len(requests) /\ searchRequestRef >= 2
  /\ requests[searchRequestRef].status = "rejected"
  /\ Signalled(searchRequestRef)
  /\ lastEvent = [op |-> "catch", arg |-> searchRequestRef]
  /\ requests[1].status = "fulfilled"

(* ----------------------------------------------------------------------- *)
(* C15: fetchSuggestions is dispatched exactly once, as the first action;  *)
(* markAsPartial has not been dispatched while the screen is mounted and    *)
(* has been dispatched exactly once after teardown, and teardown is         *)
(* possible in every state of the mounted screen.                           *)
C15_MountAndTeardownDispatch ==
  /\ Count("fetchSuggestions") = 1
  /\ dispatched[1] = "fetchSuggestions"
  /\ Count("markAsPartial") = IF mounted THEN 0 ELSE 1
  /\ mounted => ENABLED Unmount

\* torn down in add mode while searching with a request pending
C15_Witness ==
  /\ ~mounted
  /\ mode = "add"
  /\ searching
  /\ \E r \in Issued : Unsettled(r)
  /\ dispatched[Len(dispatched)] = "markAsPartial"

(* ----------------------------------------------------------------------- *)
(* C16: on a transport that eventually answers or fails every request, and *)
(* with finitely many queries handled, the searching flag is eventually     *)
(* false and stays false.                                                   *)
(* Whenever no request is left unsettled the flag is already false.         *)
C16_FlagEventuallyFalseForGood ==
  /\ <>[](~searching)
  /\ []((\A r \in Issued : ~Unsettled(r)) => ~searching)

\* every request has settled after a supersession and a late failure, and the
\* flag is down
C16_Witness ==
  /\ Len(requests) >= 2
  /\ \A r \in Issued : ~Unsettled(r)
  /\ Signalled(1)
  /\ lastEvent = [op |-> "catch", arg |-> 1]
  /\ ~searching

(* ----------------------------------------------------------------------- *)
(* C17: every run of the search function, for a blank query as for any      *)
(* other, signals the request held in the slot; the signal itself settles    *)
(* nothing and touches no other request, a request already signalled is      *)
(* left exactly as it was, and a run for a blank query leaves the flag and   *)
(* the slot alone.                                                           *)
C17_HandlerSignalsSlot ==
  [][ \A v \in Queries :
        RunsSearchFn(v) =>
          /\ searchRequestRef # 0 => requests'[searchRequestRef].aborted
          /\ \A k \in Issued :
               /\ requests'[k].status = requests[k].status
               /\ requests'[k].q = requests[k].q
               /\ k # searchRequestRef => requests'[k] = requests[k]
          /\ (searchRequestRef # 0 /\ Signalled(searchRequestRef))
               => SubSeq(requests', 1, Len(requests)) = requests
          /\ TrimmedEmpty(v)
               => /\ Len(requests') = Len(requests)
                  /\ UNCHANGED << searching, searchRequestRef >> ]_vars

\* a blank query has just signalled the pending second request, after the
\* first one, already answered, was signalled when the second was issued
C17_Witness ==
  /\ RanBlankSearch(lastEvent)
  /\ Len(requests) = 2
  /\ searchRequestRef = 2
  /\ Unsettled(2) /\ Signalled(2)
  /\ requests[1].status = "fulfilled" /\ Signalled(1)

(* ----------------------------------------------------------------------- *)
(* C18: a request becomes signalled only in a step in which the search      *)
(* function runs, and then it is the request the slot held: a mode toggle,   *)
(* a response or failure of any request, a call held back by the debouncer   *)
(* and teardown signal nothing.                                              *)
C18_SignalledOnlyByLaterRun ==
  [][ \A r \in Issued :
        (requests'[r].aborted /\ ~requests[r].aborted)
          => /\ r = searchRequestRef
             /\ \E v \in Queries : RunsSearchFn(v) ]_vars

\* after a response to the superseded request, a dismissed search and
\* teardown, the latest request is still pending and has not been signalled
C18_Witness ==
  /\ ~mounted
  /\ mode = "remove"
  /\ Len(requests) = 2
  /\ Unsettled(2) /\ ~Signalled(2)
  /\ lastEvent.op \in {"then", "catch"} /\ lastEvent.arg = 1
  /\ burstLen > Len(burstInvoked)

(* ----------------------------------------------------------------------- *)
(* C19: while the searching flag is true the most recently issued request   *)
(* is unsettled, and the flag is raised only by a run of the search          *)
(* function for a non-blank query.                                           *)
C19_FlagImpliesLatestUnsettled ==
  /\ [](searching => (Len(requests) > 0 /\ Unsettled(Len(requests))))
  /\ [][ (~searching /\ searching')
           => \E v \in Queries : ~TrimmedEmpty(v) /\ RunsSearchFn(v) ]_vars

\* the flag is up for the second request, issued after the first was answered
C19_Witness ==
  /\ searching
  /\ Len(requests) = 2
  /\ Unsettled(2)
  /\ requests[1].status = "fulfilled"
  /\ lastEvent.op = "search"

====
